---- MODULE Spec2Model ----
(***************************************************************************)
(* PhishProof MFA: the password + WebAuthn login core.                      *)
(*                                                                         *)
(* The model follows src/src/backend/webauthn.js (challenge ledger and the  *)
(* four ceremony functions), the route handlers of the backend router       *)
(* (src/unnamed/part_014), src/src/backend/auth.js (session tokens) and     *)
(* src/src/backend/database.js (the users and audit_events tables).         *)
(*                                                                         *)
(* Each HTTP request is an async handler.  Node runs one handler at a time  *)
(* and switches between handlers only at an await, so every action below is *)
(* the code between two awaits of one handler.  A step that returns from an *)
(* async function is taken together with the caller's continuation.         *)
(*                                                                         *)
(* Random values (challenge bytes, user ids) are fresh: they are named by   *)
(* the order in which they are generated.                                   *)
(***************************************************************************)
EXTENDS Integers, Sequences, FiniteSets, TLC

(***************************************************************************)
(* Bounds of the model                                                      *)
(***************************************************************************)
MaxChallenges == 2
MaxUserIds == 2
MaxCounter == 1

(***************************************************************************)
(* Program constants                                                        *)
(***************************************************************************)
\* webauthn.js:393  const maxAge = 5 * 60 * 1000
maxAge == 5 * 60 * 1000
\* part_014:44  password.length < 8
MinPasswordLength == 8
\* auth.js:8  expiresIn: '30m', in seconds
expiresIn == 30 * 60
\* webauthn.js:22-27
WEBAUTHN_CONFIG == [rpID |-> "localhost", expectedOrigin |-> "http://localhost:3000"]

(***************************************************************************)
(* Values of the model                                                      *)
(***************************************************************************)
\* absent values: a missing string, a missing id or token (ids and tokens count
\* from 1), SQL NULL in a time column, an empty byte string
Nil == "nil"
NoId == 0
NoTime == 0 - 1
NoBytes == <<>>
NoBalance == 0 - 1

\* database.js:26: balance REAL NOT NULL DEFAULT 5000.00
InitialBalance == 5000

\* a JSON value sent as the amount of a transfer: its typeof and, for a
\* number, its value; no amount property at all is undefined
NoAmount == [type |-> "undefined", value |-> 0]
Procs == {"p1", "p2"}
Usernames == {"alice", "bob"}
Passwords == {"longpassword1", "short"}
\* authenticator key pairs: k1 is the one that enrols, k2 is another one
Keys == {"k1", "k2"}
EnrolKeys == {"k1"}
Origins == {"http://localhost:3000", "http://evil.example"}
RpIds == {"localhost", "evil.example"}
Tokens == 1..MaxChallenges
UserIds == 1..MaxUserIds
Counters == 0..MaxCounter
\* instants of Date.now() the clock can show, in milliseconds
TimePoints ==
  {0, maxAge, maxAge + 1500, expiresIn * 1000 - 500, expiresIn * 1000 + 500}

\* String.prototype.length of the passwords of the model
length(pw) ==
  CASE pw = "longpassword1" -> 13
    [] pw = "correcthorse" -> 12
    [] pw = "short" -> 5
    [] OTHER -> 0

\* the credential id and the public key bytes an authenticator key pair has
credentialIdOf(k) == <<"cid", k>>
publicKeyOf(k) == <<"pk", k>>

\* webauthn.js:34-36 and :314-315: base64url text of a buffer, and back
bufferToBase64URLString(buffer) == <<"b64">> \o buffer
bufferFromBase64URL(str) == IF Len(str) > 0 /\ Head(str) = "b64" THEN Tail(str) ELSE <<>>

(***************************************************************************)
(* Requests and responses                                                   *)
(***************************************************************************)
\* what a client can send as the credential of POST /webauthn/register/verify:
\* the challenge, origin and rpId hash the authenticator signed over, the key
\* pair it created and whether the user-verified flag is set
Attestations ==
  [challenge : Tokens, origin : Origins, rpId : RpIds, key : EnrolKeys, uv : BOOLEAN]

\* what a client can send as the credential of POST /webauthn/auth/verify: the
\* signed challenge, origin and rpId hash, the credential id it names, the key
\* that made the signature, the user-verified flag and the signature counter
Assertions ==
  [challenge : Tokens, origin : Origins, rpId : RpIds, id : Keys, signedBy : Keys,
   uv : BOOLEAN, counter : Counters]

\* number of points in which a verify request departs from what a genuine
\* authenticator answering the presented challenge on the genuine site sends
Flaws(credential, challenge) ==
  (IF credential.challenge = challenge THEN 0 ELSE 1)
  + (IF credential.origin = WEBAUTHN_CONFIG.expectedOrigin THEN 0 ELSE 1)
  + (IF credential.rpId = WEBAUTHN_CONFIG.rpID THEN 0 ELSE 1)
  + (IF credential.uv THEN 0 ELSE 1)
  + (IF "signedBy" \in DOMAIN credential /\ credential.signedBy # credential.id
     THEN 1 ELSE 0)

\* the verify requests the clients of the model send: at most one such flaw
RegisterVerifyRequests ==
  {r \in [credential : Attestations, challenge : Tokens] :
     Flaws(r.credential, r.challenge) <= 1}
AuthVerifyRequests ==
  {r \in [credential : Assertions, challenge : Tokens] :
     Flaws(r.credential, r.challenge) <= 1}

\* no session token
NoToken ==
  [payload |-> [userId |-> NoId, username |-> Nil, iat |-> NoTime, exp |-> NoTime,
                iss |-> Nil, aud |-> Nil],
   signedWith |-> Nil]

NoRequest ==
  [kind |-> Nil, at |-> NoTime, username |-> Nil, password |-> Nil, userId |-> NoId,
   challenge |-> NoId, credential |-> Nil, token |-> NoToken, local |-> Nil,
   amount |-> NoAmount, description |-> Nil]

NoResponse ==
  [status |-> 0, error |-> Nil, challenge |-> NoId, allowCredentials |-> {},
   userId |-> NoId, token |-> NoToken, expiresAt |-> NoTime,
   newBalance |-> NoBalance]

Response(status, error) == [NoResponse EXCEPT !.status = status, !.error = error]

VARIABLES
  challenges,     \* webauthn.js:44  the Map of stored challenges, by token
  nChallenges,    \* how many challenges the library has generated so far
  nUserIds,       \* how many user ids randomBytes(16) has generated so far
  users,          \* the rows of the users table, by id
  audit_events,   \* the rows each handler's request has added to audit_events
  now,            \* Date.now(), milliseconds
  pc,             \* where each request handler stands
  req,            \* the request each handler serves, and its local values
  res,            \* the response each handler sent last
  verifiedTokens, \* history: tokens a verify function has returned success for
  sessions,       \* the session tokens the clients have received and kept
  authToken,      \* localStorage 'authToken' of the browser client
  activeTab,      \* the tab the browser client shows
  transactions    \* the rows of the transactions table, oldest first

vars ==
  <<challenges, nChallenges, nUserIds, users, audit_events, now, pc, req, res,
    verifiedTokens, sessions, authToken, activeTab, transactions>>

Init ==
  /\ challenges = <<>>
  /\ nChallenges = 0
  /\ nUserIds = 0
  /\ users = <<>>
  /\ audit_events = [p \in Procs |-> {}]
  /\ now = 0
  /\ pc = [p \in Procs |-> "idle"]
  /\ req = [p \in Procs |-> NoRequest]
  /\ res = [p \in Procs |-> NoResponse]
  /\ verifiedTokens = {}
  /\ sessions = {}
  /\ authToken = NoToken
  /\ activeTab = "register"
  /\ transactions = <<>>

(***************************************************************************)
(* The users and audit_events tables (database.js)                          *)
(***************************************************************************)
Rows == {users[u] : u \in DOMAIN users}

\* Map.prototype.set, Map.prototype.delete and an INSERT, on functions
MapSet(map, key, value) ==
  [k \in DOMAIN map \cup {key} |-> IF k = key THEN value ELSE map[k]]
MapDelete(map, key) == [k \in DOMAIN map \ {key} |-> map[k]]

\* database.js:201-210
findUserById(id) ==
  IF id \in DOMAIN users
  THEN [success |-> TRUE, user |-> users[id]]
  ELSE [success |-> FALSE, error |-> "User not found"]

\* database.js:212-221 with the query of :86-91: the first row, in insertion
\* order, whose username matches
findUserByUsername(username) ==
  LET found == {r \in Rows : r.username = username}
  IN  IF found # {}
      THEN [success |-> TRUE,
            user |-> CHOOSE r \in found : \A o \in found : r.rowid <= o.rowid]
      ELSE [success |-> FALSE, error |-> "User not found"]

\* the row is inserted with its id and name only, no credential bound to it
createUserWithoutCredential(id, username, password_hash, credential_id, credential_public_key) ==
  IF id \in DOMAIN users
  THEN [success |-> FALSE, users |-> users]
  ELSE [success |-> TRUE,
        users |-> MapSet(users, id,
                     [id |-> id, username |-> username,
                      password_hash |-> password_hash,
                      credential_id |-> NoBytes,
                      credential_public_key |-> NoBytes,
                      credential_counter |-> 0, balance |-> InitialBalance,
                      last_login |-> NoTime,
                      rowid |-> Cardinality(DOMAIN users) + 1])]

\* database.js:192-199 with the schema of :23-29: the insert fails only when
\* the id (PRIMARY KEY) is taken; username carries no constraint.  The columns
\* are those the callers pass (part_014:141-147); the counter starts at 0.
createUser(id, username, password_hash, credential_id, credential_public_key) ==
  IF id \in DOMAIN users
  THEN [success |-> FALSE, users |-> users]
  ELSE [success |-> TRUE,
        users |-> MapSet(users, id,
                     [id |-> id, username |-> username,
                      password_hash |-> password_hash,
                      credential_id |-> credential_id,
                      credential_public_key |-> credential_public_key,
                      credential_counter |-> 0, balance |-> InitialBalance,
                      last_login |-> NoTime,
                      rowid |-> Cardinality(DOMAIN users) + 1])]

\* the row is replaced by one that carries the id, the name and the login
\* time only
replaceUserAtLogin(table, id) ==
  IF id \in DOMAIN table
  THEN [table EXCEPT ![id] = [@ EXCEPT !.last_login = now \div 1000,
                                        !.password_hash = NoBytes,
                                        !.credential_id = NoBytes,
                                        !.credential_public_key = NoBytes]]
  ELSE table

\* database.js:232-239 with :104-109
updateUserLastLogin(table, id) ==
  IF id \in DOMAIN table THEN [table EXCEPT ![id].last_login = now \div 1000] ELSE table

\* the store writes whatever counter it is handed
writeUserCredentialCounter(table, id, newCounter) ==
  IF id \in DOMAIN table
  THEN [table EXCEPT ![id].credential_counter = newCounter]
  ELSE table

\* called at webauthn.js:349-350; the store advances the counter only
\* (compare-and-set)
updateUserCredentialCounter(table, id, newCounter) ==
  IF id \in DOMAIN table /\ newCounter > table[id].credential_counter
  THEN [table EXCEPT ![id].credential_counter = newCounter]
  ELSE table

\* called at part_014:132 and :220 (bcrypt): a hash that only the same
\* password verifies against
hashPassword(password) == [success |-> TRUE, hash |-> <<"bcrypt", password>>]
verifyPassword(password, hash) ==
  [success |-> TRUE, isValid |-> hash = <<"bcrypt", password>>]

\* database.js:47  CHECK (event_type IN (...))
AuditEventTypes == {"registration", "login_success", "login_failure", "transfer"}

\* database.js:291-314 with the schema of :44-53: the insert fails (and the
\* function returns success: false) when the event type is not one the CHECK
\* allows or the user_id names no row of users (FOREIGN KEY).  The table is
\* append-only and nothing of the login core reads it, so the model keeps,
\* for each handler, the rows its current request has added (without the
\* autoincrement id and the timestamp).
createAuditEvent(table, events, userId, eventType, reason) ==
  IF eventType \in AuditEventTypes /\ (userId = NoId \/ userId \in DOMAIN table)
  THEN events \cup {[user_id |-> userId, event_type |-> eventType, reason |-> reason]}
  ELSE events

(***************************************************************************)
(* The WebAuthn library as the code calls it (@simplewebauthn/server)       *)
(***************************************************************************)
Threw(message) == [threw |-> TRUE, message |-> message]

\* verifyRegistrationResponse, called at webauthn.js:136-142
verifyRegistrationResponse(response, expectedChallenge, expectedOrigin, expectedRPID) ==
  IF response.challenge # expectedChallenge THEN Threw("Unexpected registration response challenge")
  ELSE IF response.origin # expectedOrigin THEN Threw("Unexpected registration response origin")
  ELSE IF response.rpId # expectedRPID THEN Threw("Unexpected RP ID hash")
  ELSE IF ~response.uv THEN Threw("User verification required, but user could not be verified")
  ELSE [threw |-> FALSE, verified |-> TRUE,
        registrationInfo |->
          [credential |-> [id |-> credentialIdOf(response.key),
                           publicKey |-> publicKeyOf(response.key),
                           counter |-> 0]]]

\* the counter check without the tolerance for authenticators that do not
\* count: a reported counter not above the stored one is always turned down
verifyAuthenticationResponseStrict(response, expectedChallenge, expectedOrigin, expectedRPID, credential) ==
  IF credentialIdOf(response.id) # credential.id THEN Threw("Unexpected credential id")
  ELSE IF response.challenge # expectedChallenge THEN Threw("Unexpected authentication response challenge")
  ELSE IF response.origin # expectedOrigin THEN Threw("Unexpected authentication response origin")
  ELSE IF response.rpId # expectedRPID THEN Threw("Unexpected RP ID hash")
  ELSE IF ~response.uv THEN Threw("User verification required, but user could not be verified")
  ELSE IF response.counter <= credential.counter
       THEN Threw("Response counter value was lower than expected")
  ELSE [threw |-> FALSE,
        verified |-> (publicKeyOf(response.signedBy) = credential.publicKey),
        authenticationInfo |-> [newCounter |-> response.counter]]

\* verifyAuthenticationResponse, called at webauthn.js:327-339
verifyAuthenticationResponse(response, expectedChallenge, expectedOrigin, expectedRPID, credential) ==
  IF credentialIdOf(response.id) # credential.id THEN Threw("Unexpected credential id")
  ELSE IF response.challenge # expectedChallenge THEN Threw("Unexpected authentication response challenge")
  ELSE IF response.origin # expectedOrigin THEN Threw("Unexpected authentication response origin")
  ELSE IF response.rpId # expectedRPID THEN Threw("Unexpected RP ID hash")
  ELSE IF ~response.uv THEN Threw("User verification required, but user could not be verified")
  ELSE IF (response.counter > 0 \/ credential.counter > 0)
          /\ response.counter <= credential.counter
       THEN Threw("Response counter value was lower than expected")
  ELSE [threw |-> FALSE,
        verified |-> (publicKeyOf(response.signedBy) = credential.publicKey),
        authenticationInfo |-> [newCounter |-> response.counter]]

(***************************************************************************)
(* Session tokens (auth.js)                                                 *)
(***************************************************************************)
\* auth.js:5-11
JWT_CONFIG ==
  [secret |-> "phishproof-mfa-secret-key-change-in-production",
   issuer |-> "phishproof-mfa", audience |-> "phishproof-mfa-users"]

\* jwt.sign(payload, secret, {expiresIn}): exp = iat + expiresIn, both in
\* seconds
sign(payload, secret) ==
  [payload |-> [userId |-> payload.userId, username |-> payload.username,
                iat |-> payload.iat, exp |-> payload.iat + expiresIn,
                iss |-> payload.iss, aud |-> payload.aud],
   signedWith |-> secret]

\* issued-at is taken in milliseconds
generateTokenMillis(userId, username) ==
  [success |-> TRUE,
   token |-> sign([userId |-> userId, username |-> username,
                   iat |-> now,
                   iss |-> JWT_CONFIG.issuer, aud |-> JWT_CONFIG.audience],
                  JWT_CONFIG.secret)]

\* auth.js:14-32
generateToken(userId, username) ==
  [success |-> TRUE,
   token |-> sign([userId |-> userId, username |-> username,
                   iat |-> now \div 1000,
                   iss |-> JWT_CONFIG.issuer, aud |-> JWT_CONFIG.audience],
                  JWT_CONFIG.secret)]

\* the token is decoded without checking its signature
verifyTokenUnsigned(token) ==
  IF now \div 1000 >= token.payload.exp
  THEN [success |-> FALSE, error |-> "Token expired", payload |-> NoToken.payload]
  ELSE IF token.payload.iss # JWT_CONFIG.issuer \/ token.payload.aud # JWT_CONFIG.audience
  THEN [success |-> FALSE, error |-> "Invalid token format", payload |-> NoToken.payload]
  ELSE [success |-> TRUE, error |-> Nil, payload |-> token.payload]

\* the token counts as valid through the second of its expiry
verifyTokenLate(token) ==
  IF token.signedWith # JWT_CONFIG.secret
  THEN [success |-> FALSE, error |-> "Invalid token format", payload |-> NoToken.payload]
  ELSE IF now \div 1000 > token.payload.exp
  THEN [success |-> FALSE, error |-> "Token expired", payload |-> NoToken.payload]
  ELSE [success |-> TRUE, error |-> Nil, payload |-> token.payload]

\* auth.js:35-53: jwt.verify throws JsonWebTokenError for a malformed token,
\* a bad signature, a wrong issuer or audience, and TokenExpiredError when
\* the clock, in seconds, has reached exp
verifyToken(token) ==
  IF token.signedWith # JWT_CONFIG.secret
  THEN [success |-> FALSE, error |-> "Invalid token format", payload |-> NoToken.payload]
  ELSE IF now \div 1000 >= token.payload.exp
  THEN [success |-> FALSE, error |-> "Token expired", payload |-> NoToken.payload]
  ELSE IF token.payload.iss # JWT_CONFIG.issuer \/ token.payload.aud # JWT_CONFIG.audience
  THEN [success |-> FALSE, error |-> "Invalid token format", payload |-> NoToken.payload]
  ELSE [success |-> TRUE, error |-> Nil, payload |-> token.payload]

\* auth.js:117-145: a token that verifies is exchanged for one signed now
refreshToken(token) ==
  LET verification == verifyToken(token)
  IN IF ~verification.success
     THEN [success |-> FALSE, error |-> verification.error, token |-> NoToken]
     ELSE [success |-> TRUE, error |-> Nil,
           token |-> sign([userId |-> verification.payload.userId,
                           username |-> verification.payload.username,
                           iat |-> now \div 1000,
                           iss |-> JWT_CONFIG.issuer, aud |-> JWT_CONFIG.audience],
                          JWT_CONFIG.secret)]

(***************************************************************************)
(* The challenge ledger (webauthn.js)                                       *)
(***************************************************************************)
\* webauthn.js:391-400
cleanupOldChallenges(map) ==
  [t \in {k \in DOMAIN map : ~(now - map[k].timestamp > maxAge)} |-> map[t]]

\* a stored challenge is found whatever it was issued for
challengeOfAnyType(map, challenge, type) == challenge \in DOMAIN map

\* webauthn.js:123-131 and :271-276: challenges.get(challenge) finds an entry
\* and the entry is of the type the verify function serves
challengeOfType(map, challenge, type) ==
  challenge \in DOMAIN map /\ map[challenge].type = type

\* the used challenge stays in the ledger
keepUsedChallenge(map, challenge) == map

\* webauthn.js:156-157 and :353-354: the used challenge is removed
removeUsedChallenge(map, challenge) == MapDelete(map, challenge)

\* a handler sends its response and ends
Respond(p, response) ==
  /\ pc' = [pc EXCEPT ![p] = "done"]
  /\ res' = [res EXCEPT ![p] = response]

\* the route answers 500 when the event it has just emitted was not recorded
RespondIfEventRecorded(p, response) ==
  Respond(p, IF audit_events'[p] = audit_events[p]
             THEN Response(500, "Internal server error")
             ELSE response)

\* part_014:246-259 (and :74-84, :119-128, :157-171, :385-394, :428-447):
\* createAuditEvent(...) is called as a statement and its result is dropped;
\* the response that follows is sent whether or not the row was inserted
RespondAfterEvent(p, response) == Respond(p, response)

\* what stays visible of a request once its handler has ended: the arrival
\* time and the local values are dropped, and so is the credential object of
\* a request that was turned down before any await
Finished(r) == [r EXCEPT !.at = NoTime, !.local = Nil]
Ended(r) == [r EXCEPT !.at = NoTime, !.credential = Nil, !.local = Nil]

\* a handler goes on to its next await
Goto(p, label) ==
  /\ pc' = [pc EXCEPT ![p] = label]
  /\ UNCHANGED res

\* an error thrown by the library call leaves the verify function and is
\* caught by the route, which answers 500
verificationEscapes(status, verification, message) ==
  IF verification.threw
  THEN Response(500, "Internal server error")
  ELSE Response(status, message)

\* webauthn.js:145-148 and :187-190, :341-344 and :362-365 with
\* part_014:125-128, :391-394: a verification that is not verified, or a
\* library call that threw, makes the verify function resolve to
\* {success: false, error}, with the thrown message as the error; the route
\* answers with that error
verificationFailed(status, verification, message) ==
  Response(status, IF verification.threw THEN verification.message ELSE message)

(***************************************************************************)
(* POST /webauthn/register/challenge                                        *)
(***************************************************************************)
\* only a missing password is turned down
weakPasswordMissingOnly(password) == password = Nil

\* part_014:44: !password || typeof password !== 'string' || password.length < 8
weakPassword(password) == password = Nil \/ length(password) < MinPasswordLength

\* no name is ever found taken
usernameNeverTaken(username) == FALSE

\* part_014:51-53: the pre-check, existingUser.success
usernameTaken(username) == findUserByUsername(username).success

\* part_014:30-63 and webauthn.js:56-75: validation, the duplicate pre-check,
\* the new user id, up to the await of generateRegistrationOptions
RegisterChallenge(p, username, password) ==
  LET r == [NoRequest EXCEPT !.kind = "registerChallenge", !.at = now, !.username = username,
                             !.password = password]
  IN
  /\ pc[p] = "idle"
  /\ UNCHANGED <<challenges, nChallenges, users, audit_events, now, verifiedTokens, sessions, authToken, activeTab, transactions>>
  /\ IF username = Nil
     THEN /\ Respond(p, Response(400, "Valid username is required"))
          /\ req' = [req EXCEPT ![p] = Ended(r)]
          /\ UNCHANGED nUserIds
     ELSE IF weakPassword(password)
     THEN /\ Respond(p, Response(400, "Password must be at least 8 characters long"))
          /\ req' = [req EXCEPT ![p] = Ended(r)]
          /\ UNCHANGED nUserIds
     ELSE IF usernameTaken(username)
     THEN /\ Respond(p, Response(409, "Username already exists"))
          /\ req' = [req EXCEPT ![p] = Ended(r)]
          /\ UNCHANGED nUserIds
     ELSE /\ nUserIds < MaxUserIds
          /\ nUserIds' = nUserIds + 1
          /\ req' = [req EXCEPT ![p] = [r EXCEPT !.local = [userId |-> nUserIds + 1]]]
          /\ Goto(p, "rc_options")

\* webauthn.js:76-96 and part_014:65-83: the challenge is stored with the
\* stashed name and password, the audit event is written, the options are sent
RegisterChallengeStore(p) ==
  LET challenge == nChallenges + 1
  IN
  /\ pc[p] = "rc_options"
  /\ nChallenges < MaxChallenges
  /\ nChallenges' = challenge
  /\ challenges' = MapSet(challenges, challenge,
                      [type |-> "registration", userID |-> req[p].local.userId,
                       username |-> req[p].username, password |-> req[p].password,
                       timestamp |-> now])
  /\ audit_events' = [audit_events EXCEPT ![p] = createAuditEvent(users, @, NoId, "registration_challenge", Nil)]
  /\ req' = [req EXCEPT ![p] = Finished(req[p])]
  /\ RespondAfterEvent(p, [Response(200, Nil) EXCEPT !.challenge = challenge])
  /\ UNCHANGED <<nUserIds, users, now, verifiedTokens, sessions, authToken, activeTab, transactions>>

(***************************************************************************)
(* POST /webauthn/register/verify                                           *)
(***************************************************************************)
\* the entry stored last is taken, whatever token is presented
challengesGetLatest(map, challenge) ==
  map[CHOOSE t \in DOMAIN map : \A o \in DOMAIN map : o <= t]

\* webauthn.js:123: challenges.get(challenge), the entry stored under the
\* presented token (read only when the token is in the ledger)
challengesGet(map, challenge) == map[challenge]

\* the call of webauthn.js:136-142: the response is checked against the
\* presented challenge and the configured origin and rpID
RegistrationVerification(credential, challenge) ==
  verifyRegistrationResponse(credential, challenge,
    WEBAUTHN_CONFIG.expectedOrigin, WEBAUTHN_CONFIG.rpID)

\* part_014:95-115 and webauthn.js:118-142: the ledger lookup, up to the await
\* of verifyRegistrationResponse
RegisterVerify(p, credential, challenge) ==
  LET r == [NoRequest EXCEPT !.kind = "registerVerify", !.at = now, !.credential = credential,
                             !.challenge = challenge]
      challengeData == challengesGet(challenges, challenge)
  IN
  /\ pc[p] = "idle"
  /\ UNCHANGED <<challenges, nChallenges, nUserIds, users, now, verifiedTokens, sessions, authToken, activeTab, transactions>>
  /\ IF ~challengeOfType(challenges, challenge, "registration")
     THEN /\ audit_events' = [audit_events EXCEPT ![p] = createAuditEvent(users, @, NoId, "registration_failed", Nil)]
          /\ req' = [req EXCEPT ![p] = Ended(r)]
          /\ RespondAfterEvent(p, Response(400, "Invalid or expired challenge"))
     ELSE /\ req' = [req EXCEPT ![p] = [r EXCEPT !.local =
                       [challengeData |-> challengeData,
                        verification |->
                          RegistrationVerification(credential, challenge)]]]
          /\ UNCHANGED audit_events
          /\ Goto(p, "rv_verify")

\* webauthn.js:143-190 and part_014:117-132: the verification result; on
\* success the challenge is deleted and the route awaits hashPassword
RegisterVerifyFinish(p) ==
  LET verification == req[p].local.verification
      challengeData == req[p].local.challengeData
  IN
  /\ pc[p] = "rv_verify"
  /\ UNCHANGED <<nChallenges, nUserIds, users, now>>
  /\ IF verification.threw \/ ~verification.verified
     THEN /\ audit_events' = [audit_events EXCEPT ![p] = createAuditEvent(users, @, NoId, "registration_failed", Nil)]
          /\ req' = [req EXCEPT ![p] = Finished(req[p])]
          /\ RespondAfterEvent(p, verificationFailed(400, verification,
                                      "Credential verification failed"))
          /\ UNCHANGED <<challenges, verifiedTokens, sessions, authToken, activeTab, transactions>>
     ELSE /\ challenges' = removeUsedChallenge(challenges, req[p].challenge)
          /\ verifiedTokens' = verifiedTokens \cup {req[p].challenge}
          /\ UNCHANGED <<sessions, authToken, activeTab, transactions>>
          /\ req' = [req EXCEPT ![p].local =
                       [userID |-> challengeData.userID,
                        username |-> challengeData.username,
                        credentialId |-> verification.registrationInfo.credential.id,
                        credentialPublicKey |->
                          bufferToBase64URLString(
                            verification.registrationInfo.credential.publicKey),
                        passwordHashResult |-> hashPassword(challengeData.password)]]
          /\ UNCHANGED audit_events
          /\ Goto(p, "rv_hash")

\* part_014:133-169: the user row is created and the registration is logged
RegisterVerifyCreate(p) ==
  LET l == req[p].local
      userResult == createUser(l.userID, l.username, l.passwordHashResult.hash,
                               l.credentialId, l.credentialPublicKey)
  IN
  /\ pc[p] = "rv_hash"
  /\ UNCHANGED <<challenges, nChallenges, nUserIds, now, verifiedTokens, sessions, authToken, activeTab, transactions>>
  /\ req' = [req EXCEPT ![p] = Finished(req[p])]
  /\ IF ~l.passwordHashResult.success
     THEN /\ Respond(p, Response(500, "Failed to process password"))
          /\ UNCHANGED <<users, audit_events>>
     ELSE IF ~userResult.success
     THEN /\ Respond(p, Response(500, "Failed to create user account"))
          /\ UNCHANGED <<users, audit_events>>
     ELSE /\ users' = userResult.users
          /\ audit_events' = [audit_events EXCEPT ![p] = createAuditEvent(userResult.users, @, l.userID,
                                              "registration", Nil)]
          /\ RespondAfterEvent(p, [Response(200, Nil) EXCEPT !.userId = l.userID])

\* the response names the reason of the failure
LoginFailureByReason(reason) == Response(401, reason)

\* part_014:211-214 and :230-233: the response to a failed login, the same
\* for reason 'user_not_found' and for reason 'invalid_password'
LoginFailure(reason) == Response(401, "Invalid username or password")

(***************************************************************************)
(* POST /auth/login and POST /webauthn/auth/challenge                       *)
(***************************************************************************)
\* part_014:181-220: validation and the user lookup, up to the await of
\* verifyPassword
Login(p, username, password) ==
  LET r == [NoRequest EXCEPT !.kind = "login", !.at = now, !.username = username,
                             !.password = password]
      userResult == findUserByUsername(username)
  IN
  /\ pc[p] = "idle"
  /\ UNCHANGED <<challenges, nChallenges, nUserIds, users, now, verifiedTokens, sessions, authToken, activeTab, transactions>>
  /\ IF username = Nil
     THEN /\ Respond(p, Response(400, "Valid username is required"))
          /\ req' = [req EXCEPT ![p] = Ended(r)]
          /\ UNCHANGED audit_events
     ELSE IF password = Nil
     THEN /\ Respond(p, Response(400, "Password is required"))
          /\ req' = [req EXCEPT ![p] = Ended(r)]
          /\ UNCHANGED audit_events
     ELSE IF ~userResult.success
     THEN /\ audit_events' = [audit_events EXCEPT ![p] = createAuditEvent(users, @, NoId, "login_failure",
                                              "user_not_found")]
          /\ req' = [req EXCEPT ![p] = Ended(r)]
          /\ RespondAfterEvent(p, LoginFailure("user_not_found"))
     ELSE /\ req' = [req EXCEPT ![p] = [r EXCEPT !.local =
                       [user |-> userResult.user,
                        passwordResult |->
                          verifyPassword(password, userResult.user.password_hash)]]]
          /\ UNCHANGED audit_events
          /\ Goto(p, "l_password")

\* part_014:221-237 and webauthn.js:201-204: the password result; on a match
\* generateAuthenticationChallenge is entered, up to its await of the import
LoginPassword(p) ==
  LET user == req[p].local.user
      passwordResult == req[p].local.passwordResult
  IN
  /\ pc[p] = "l_password"
  /\ UNCHANGED <<challenges, nChallenges, nUserIds, users, now, verifiedTokens, sessions, authToken, activeTab, transactions>>
  /\ IF ~passwordResult.success \/ ~passwordResult.isValid
     THEN /\ audit_events' = [audit_events EXCEPT ![p] = createAuditEvent(users, @, user.id, "login_failure",
                                              "invalid_password")]
          /\ req' = [req EXCEPT ![p] = Finished(req[p])]
          /\ RespondAfterEvent(p, LoginFailure("invalid_password"))
     ELSE /\ req' = [req EXCEPT ![p].local = [userId |-> user.id]]
          /\ UNCHANGED audit_events
          /\ Goto(p, "ga_import")

\* part_014:271-323 and webauthn.js:201-204: a challenge for a user named by
\* id or by username, no password asked
AuthChallenge(p, userId, username) ==
  LET r == [NoRequest EXCEPT !.kind = "authChallenge", !.at = now, !.username = username,
                             !.userId = userId]
      userLookup == IF username # Nil THEN findUserByUsername(username)
                    ELSE findUserById(userId)
  IN
  /\ pc[p] = "idle"
  /\ UNCHANGED <<challenges, nChallenges, nUserIds, users, audit_events, now,
                 verifiedTokens, sessions, authToken, activeTab, transactions>>
  /\ IF (userId = NoId /\ username = Nil) \/ (userId # NoId /\ username # Nil)
     THEN /\ Respond(p, Response(400, "Either userId or username is required (not both)"))
          /\ req' = [req EXCEPT ![p] = Ended(r)]
     ELSE IF ~userLookup.success
     THEN /\ Respond(p, Response(404, "User not found"))
          /\ req' = [req EXCEPT ![p] = Ended(r)]
     ELSE /\ req' = [req EXCEPT ![p] = [r EXCEPT !.local =
                       [userId |-> IF username # Nil THEN userLookup.user.id ELSE userId]]]
          /\ Goto(p, "ga_import")

\* the list is left empty, which lets the browser offer any credential
allowAnyCredential(user) == {}

\* webauthn.js:217-225: the allowCredentials option of
\* generateAuthenticationOptions holds the one credential id of the user row
allowCredentials(user) == {user.credential_id}

\* webauthn.js:206-225 (part_014:239-244, :325-330 on failure): the user's
\* credential is looked up, up to the await of generateAuthenticationOptions
GenerateAuthenticationChallengeLookup(p) ==
  LET userResult == findUserById(req[p].local.userId)
  IN
  /\ pc[p] = "ga_import"
  /\ UNCHANGED <<challenges, nChallenges, nUserIds, users, audit_events, now,
                 verifiedTokens, sessions, authToken, activeTab, transactions>>
  /\ IF ~userResult.success \/ userResult.user.credential_id = NoBytes
     THEN /\ req' = [req EXCEPT ![p] = Finished(req[p])]
          /\ Respond(p, Response(500, "Failed to generate authentication challenge"))
     ELSE /\ req' = [req EXCEPT ![p].local =
                       [userId |-> req[p].local.userId,
                        allowCredentials |-> allowCredentials(userResult.user)]]
          /\ Goto(p, "ga_options")

\* webauthn.js:227-241 and part_014:246-259, :332-343: the challenge is
\* stored, old challenges are swept, the audit event is written, the options
\* are sent
GenerateAuthenticationChallengeStore(p) ==
  LET challenge == nChallenges + 1
      userId == req[p].local.userId
  IN
  /\ pc[p] = "ga_options"
  /\ nChallenges < MaxChallenges
  /\ nChallenges' = challenge
  /\ challenges' = cleanupOldChallenges(
                     MapSet(challenges, challenge,
                        [type |-> "authentication", userId |-> userId,
                         timestamp |-> now]))
  /\ audit_events' = [audit_events EXCEPT ![p] = createAuditEvent(users, @, userId,
                        IF req[p].kind = "login" THEN "password_verified"
                        ELSE "authentication_challenge", Nil)]
  /\ RespondAfterEvent(p, [Response(200, Nil) EXCEPT
                   !.challenge = challenge, !.userId = userId,
                   !.allowCredentials = req[p].local.allowCredentials])
  /\ req' = [req EXCEPT ![p] = Finished(req[p])]
  /\ UNCHANGED <<nUserIds, users, now, verifiedTokens, sessions, authToken, activeTab, transactions>>

(***************************************************************************)
(* POST /webauthn/auth/verify                                               *)
(***************************************************************************)
\* part_014:355-381 and webauthn.js:259-279: the ledger lookup, up to the
\* await of the import
AuthVerify(p, credential, challenge) ==
  LET r == [NoRequest EXCEPT !.kind = "authVerify", !.at = now, !.credential = credential,
                             !.challenge = challenge]
      challengeData == challenges[challenge]
  IN
  /\ pc[p] = "idle"
  /\ UNCHANGED <<challenges, nChallenges, nUserIds, users, now, verifiedTokens, sessions, authToken, activeTab, transactions>>
  /\ IF ~challengeOfType(challenges, challenge, "authentication")
     THEN /\ audit_events' = [audit_events EXCEPT ![p] = createAuditEvent(users, @, NoId,
                                              "authentication_failed", Nil)]
          /\ req' = [req EXCEPT ![p] = Ended(r)]
          /\ RespondAfterEvent(p, Response(401, "Invalid or expired challenge"))
     ELSE /\ req' = [req EXCEPT ![p] = [r EXCEPT !.local =
                                           [challengeData |-> challengeData]]]
          /\ UNCHANGED audit_events
          /\ Goto(p, "av_import")

\* the call with the response's own origin and rpId as the expected ones
AuthenticationVerificationAnyOrigin(credential, challenge, user) ==
  verifyAuthenticationResponse(credential, challenge,
    credential.origin, credential.rpId,
    [id |-> user.credential_id,
     publicKey |-> bufferFromBase64URL(user.credential_public_key),
     counter |-> user.credential_counter])

\* the call with the response's own challenge as the expected one
AuthenticationVerificationAnyChallenge(credential, challenge, user) ==
  verifyAuthenticationResponse(credential, credential.challenge,
    WEBAUTHN_CONFIG.expectedOrigin, WEBAUTHN_CONFIG.rpID,
    [id |-> user.credential_id,
     publicKey |-> bufferFromBase64URL(user.credential_public_key),
     counter |-> user.credential_counter])

\* the call without the stored counter
AuthenticationVerificationNoCounter(credential, challenge, user) ==
  verifyAuthenticationResponse(credential, challenge,
    WEBAUTHN_CONFIG.expectedOrigin, WEBAUTHN_CONFIG.rpID,
    [id |-> user.credential_id,
     publicKey |-> bufferFromBase64URL(user.credential_public_key),
     counter |-> 0])

\* the response is checked against the stored credential of whichever user
\* owns the credential id the response names
AuthenticationVerificationPresentedKey(credential, challenge, user) ==
  LET owners == {r \in Rows : r.credential_id = credentialIdOf(credential.id)}
      owner == IF owners = {} THEN user ELSE CHOOSE r \in owners : TRUE
  IN verifyAuthenticationResponse(credential, challenge,
       WEBAUTHN_CONFIG.expectedOrigin, WEBAUTHN_CONFIG.rpID,
       [id |-> owner.credential_id,
        publicKey |-> bufferFromBase64URL(owner.credential_public_key),
        counter |-> owner.credential_counter])

\* the call of webauthn.js:327-339: the response is checked against the
\* presented challenge, the configured origin and rpID and the stored credential
AuthenticationVerification(credential, challenge, user) ==
  verifyAuthenticationResponse(credential, challenge,
    WEBAUTHN_CONFIG.expectedOrigin, WEBAUTHN_CONFIG.rpID,
    [id |-> user.credential_id,
     publicKey |-> bufferFromBase64URL(user.credential_public_key),
     counter |-> user.credential_counter])

\* webauthn.js:281-339: the stored credential is read and
\* verifyAuthenticationResponse is called, up to its await
AuthVerifyLookup(p) ==
  LET challengeData == req[p].local.challengeData
      userResult == findUserById(challengeData.userId)
      user == userResult.user
  IN
  /\ pc[p] = "av_import"
  /\ UNCHANGED <<challenges, nChallenges, nUserIds, users, now, verifiedTokens, sessions, authToken, activeTab, transactions>>
  /\ IF ~userResult.success
     THEN /\ audit_events' = [audit_events EXCEPT ![p] = createAuditEvent(users, @, NoId,
                                              "authentication_failed", Nil)]
          /\ req' = [req EXCEPT ![p] = Finished(req[p])]
          /\ RespondAfterEvent(p, Response(401, "User not found"))
     ELSE IF user.credential_id = NoBytes \/ user.credential_public_key = NoBytes
     THEN /\ audit_events' = [audit_events EXCEPT ![p] = createAuditEvent(users, @, NoId,
                                              "authentication_failed", Nil)]
          /\ req' = [req EXCEPT ![p] = Finished(req[p])]
          /\ RespondAfterEvent(p, Response(401, "User has no registered credential"))
     ELSE /\ req' = [req EXCEPT ![p].local =
                       [challengeData |-> challengeData,
                        storedCounter |-> user.credential_counter,
                        verification |->
                          AuthenticationVerification(req[p].credential,
                                                     req[p].challenge, user)]]
          /\ UNCHANGED audit_events
          /\ Goto(p, "av_verify")

\* the reported counter is written before the verification result is looked at
AuthVerifyCounterWriteFirst(p) ==
  LET verification == req[p].local.verification
      challengeData == req[p].local.challengeData
  IN
  /\ pc[p] = "av_verify"
  /\ UNCHANGED <<challenges, nChallenges, nUserIds, now, verifiedTokens, sessions, authToken, activeTab, transactions>>
  /\ users' = updateUserCredentialCounter(users, challengeData.userId,
                                          req[p].credential.counter)
  /\ IF verification.threw \/ ~verification.verified
     THEN /\ audit_events' = [audit_events EXCEPT ![p] = createAuditEvent(users, @, NoId,
                                              "authentication_failed", Nil)]
          /\ req' = [req EXCEPT ![p] = Finished(req[p])]
          /\ RespondAfterEvent(p, verificationFailed(401, verification,
                                      "Authentication verification failed"))
     ELSE /\ UNCHANGED <<audit_events, req>>
          /\ Goto(p, "av_counter")

\* webauthn.js:340-350: the verification result; on success the counter is
\* written, up to the await of that write
AuthVerifyCounter(p) ==
  LET verification == req[p].local.verification
      challengeData == req[p].local.challengeData
  IN
  /\ pc[p] = "av_verify"
  /\ UNCHANGED <<challenges, nChallenges, nUserIds, now, verifiedTokens, sessions, authToken, activeTab, transactions>>
  /\ IF verification.threw \/ ~verification.verified
     THEN /\ audit_events' = [audit_events EXCEPT ![p] = createAuditEvent(users, @, NoId,
                                              "authentication_failed", Nil)]
          /\ req' = [req EXCEPT ![p] = Finished(req[p])]
          /\ RespondAfterEvent(p, verificationFailed(401, verification,
                                      "Authentication verification failed"))
          /\ UNCHANGED users
     ELSE /\ users' = updateUserCredentialCounter(users, challengeData.userId,
                         verification.authenticationInfo.newCounter)
          /\ UNCHANGED <<audit_events, req>>
          /\ Goto(p, "av_counter")

\* webauthn.js:353-362 and part_014:383-449: the challenge is deleted, the
\* last login is stamped, the session token is minted and sent
AuthVerifyFinish(p) ==
  LET userId == req[p].local.challengeData.userId
      table == updateUserLastLogin(users, userId)
      tokenUserResult == findUserById(userId)
      tokenResult == generateToken(userId, tokenUserResult.user.username)
  IN
  /\ pc[p] = "av_counter"
  /\ challenges' = removeUsedChallenge(challenges, req[p].challenge)
  /\ verifiedTokens' = verifiedTokens \cup {req[p].challenge}
  /\ UNCHANGED <<sessions, authToken, activeTab, transactions>>
  /\ req' = [req EXCEPT ![p] = Finished(req[p])]
  /\ UNCHANGED <<nChallenges, nUserIds, now>>
  /\ users' = table
  /\ IF ~tokenUserResult.success
     THEN /\ Respond(p, Response(500, "Failed to retrieve user details"))
          /\ UNCHANGED audit_events
     ELSE /\ audit_events' = [audit_events EXCEPT ![p] =
               createAuditEvent(table,
                 createAuditEvent(table, @, userId, "authentication_success", Nil),
                 userId, "login_success", Nil)]
          /\ RespondAfterEvent(p, [Response(200, Nil) EXCEPT
                           !.token = tokenResult.token, !.userId = userId,
                           !.expiresAt = now + 30 * 60 * 1000])

(***************************************************************************)
(* Protected routes: GET /dashboard behind authenticateToken                *)
(***************************************************************************)
\* a token that does not verify is let through
authenticateTokenLax(token) ==
  LET verification == verifyToken(token)
      userResult == findUserById(token.payload.userId)
  IN IF token = NoToken
     THEN [next |-> FALSE, response |-> Response(401, "Access token required"), user |-> NoId]
     ELSE IF ~userResult.success
     THEN [next |-> FALSE, response |-> Response(401, "User not found"), user |-> NoId]
     ELSE [next |-> TRUE, response |-> NoResponse, user |-> token.payload.userId]

\* auth.js:56-92: the bearer token of the Authorization header is verified and
\* its user is looked up; next() is called only when both succeed
authenticateToken(token) ==
  LET verification == verifyToken(token)
      userResult == findUserById(verification.payload.userId)
  IN IF token = NoToken
     THEN [next |-> FALSE, response |-> Response(401, "Access token required"), user |-> NoId]
     ELSE IF ~verification.success
     THEN [next |-> FALSE, response |-> Response(401, verification.error), user |-> NoId]
     ELSE IF ~userResult.success
     THEN [next |-> FALSE, response |-> Response(401, "User not found"), user |-> NoId]
     ELSE [next |-> TRUE, response |-> NoResponse, user |-> verification.payload.userId]

\* part_014:461-500: the dashboard handler runs when authenticateToken calls
\* next(); it has no await
Dashboard(p, token) ==
  LET r == [NoRequest EXCEPT !.kind = "dashboard", !.at = now, !.token = token]
      auth == authenticateToken(token)
  IN
  /\ pc[p] = "idle"
  /\ UNCHANGED <<challenges, nChallenges, nUserIds, users, audit_events, now,
                 verifiedTokens, sessions, authToken, activeTab, transactions>>
  /\ req' = [req EXCEPT ![p] = r]
  /\ IF ~auth.next
     THEN Respond(p, auth.response)
     ELSE IF ~findUserById(auth.user).success
     THEN Respond(p, Response(404, "User not found"))
     ELSE Respond(p, [Response(200, Nil) EXCEPT !.userId = auth.user])

\* auth.js:117-145: refreshToken is exported by the session module; a caller
\* that holds a token which still verifies gets a new one
Refresh(token) ==
  /\ token \in sessions
  /\ refreshToken(token).success
  /\ sessions' = sessions \cup {refreshToken(token).token}
  /\ UNCHANGED <<authToken, activeTab, transactions>>
  /\ UNCHANGED <<challenges, nChallenges, nUserIds, users, audit_events, now, pc, req,
                 res, verifiedTokens>>

(***************************************************************************)
(* POST /transfers behind authenticateToken                                 *)
(***************************************************************************)
\* the request bodies the clients of the model send: the amount is missing,
\* a string, or a number that is negative, zero, half the opening balance or
\* more than it; the description is missing, blank or a word
JsonAmounts ==
  {NoAmount, [type |-> "string", value |-> 2500]}
    \cup {[type |-> "number", value |-> v] : v \in {0 - 2500, 0, 2500, 6000}}
Descriptions == {Nil, "   ", "rent"}

\* String.prototype.trim on the descriptions of the model
trim(description) == IF description = "   " THEN "" ELSE description

\* part_014:510: !amount || typeof amount !== 'number' || amount <= 0
validAmount(amount) == amount.type = "number" /\ amount.value > 0

\* part_014:517: !description || typeof description !== 'string' ||
\* description.trim().length === 0
validDescription(description) == description # Nil /\ trim(description) # ""

\* database.js:279-288 with the query of :144-148
getUserBalance(userId) ==
  IF userId \in DOMAIN users
  THEN [success |-> TRUE, balance |-> users[userId].balance]
  ELSE [success |-> FALSE, balance |-> NoBalance]

\* any balance is taken for sufficient
sufficientBalanceAlways(balance, amount) == TRUE

\* part_014:534: balanceResult.balance < amount is turned down
sufficientBalance(balance, amount) == balance >= amount

\* database.js:251-268 with the schema of :32-41: the insert fails when the
\* type, the amount or balance_after breaks its CHECK or the user_id names no
\* row of users; the id is the next AUTOINCREMENT value
createTransaction(rows, userId, type, amount, description, balanceAfter) ==
  IF /\ userId \in DOMAIN users
     /\ type \in {"credit", "debit"}
     /\ amount > 0
     /\ balanceAfter >= 0
  THEN [success |-> TRUE, transactionId |-> Len(rows) + 1,
        transactions |-> Append(rows, [id |-> Len(rows) + 1, user_id |-> userId,
                                       type |-> type, amount |-> amount,
                                       description |-> description,
                                       balance_after |-> balanceAfter])]
  ELSE [success |-> FALSE, transactionId |-> NoId, transactions |-> rows]

\* the balance column is left as it was, and success is reported
updateUserBalanceSkipped(table, id, newBalance) == [success |-> TRUE, users |-> table]

\* database.js:223-230 with the query of :95-101 and the CHECK of :26
updateUserBalance(table, id, newBalance) ==
  IF id \in DOMAIN table /\ newBalance >= 0
  THEN [success |-> TRUE, users |-> [table EXCEPT ![id].balance = newBalance]]
  ELSE [success |-> FALSE, users |-> table]

\* part_014:504-594: the transfer handler runs when authenticateToken calls
\* next(); it has no await, so the whole of it is one step
Transfer(p, token, amount, description) ==
  LET r == [NoRequest EXCEPT !.kind = "transfer", !.at = now, !.token = token,
                             !.amount = amount, !.description = description]
      auth == authenticateToken(token)
      userId == auth.user
      balanceResult == getUserBalance(userId)
      newBalance == balanceResult.balance - amount.value
      transactionResult ==
        createTransaction(transactions, userId, "debit", amount.value,
                          trim(description), newBalance)
      updateBalanceResult == updateUserBalance(users, userId, newBalance)
  IN
  /\ pc[p] = "idle"
  /\ req' = [req EXCEPT ![p] = r]
  /\ UNCHANGED <<challenges, nChallenges, nUserIds, now, verifiedTokens, sessions,
                 authToken, activeTab>>
  /\ IF ~auth.next
     THEN /\ Respond(p, auth.response)
          /\ UNCHANGED <<users, transactions, audit_events>>
     ELSE IF ~validAmount(amount)
     THEN /\ Respond(p, Response(400, "Valid amount (positive number) is required"))
          /\ UNCHANGED <<users, transactions, audit_events>>
     ELSE IF ~validDescription(description)
     THEN /\ Respond(p, Response(400, "Description is required"))
          /\ UNCHANGED <<users, transactions, audit_events>>
     ELSE IF ~balanceResult.success
     THEN /\ Respond(p, Response(500, "Failed to check balance"))
          /\ UNCHANGED <<users, transactions, audit_events>>
     ELSE IF ~sufficientBalance(balanceResult.balance, amount.value)
     THEN /\ Respond(p, Response(400, "Insufficient balance"))
          /\ UNCHANGED <<users, transactions, audit_events>>
     ELSE IF ~transactionResult.success
     THEN /\ Respond(p, Response(500, "Failed to create transaction"))
          /\ UNCHANGED <<users, transactions, audit_events>>
     ELSE IF ~updateBalanceResult.success
     THEN /\ transactions' = transactionResult.transactions
          /\ Respond(p, Response(500, "Failed to update balance"))
          /\ UNCHANGED <<users, audit_events>>
     ELSE /\ transactions' = transactionResult.transactions
          /\ users' = updateBalanceResult.users
          /\ audit_events' = [audit_events EXCEPT ![p] = createAuditEvent(users', @, userId, "transfer", Nil)]
          /\ Respond(p, [Response(200, Nil) EXCEPT !.userId = userId,
                                                   !.newBalance = newBalance])

(***************************************************************************)
(* The client, the process and time                                         *)
(***************************************************************************)
\* the client keeps the session token of a successful login
KeepSession(p) ==
  /\ pc[p] = "done"
  /\ req[p].kind = "authVerify"
  /\ res[p].status = 200
  /\ sessions' = sessions \cup {res[p].token}
  /\ UNCHANGED <<authToken, activeTab, transactions>>
  /\ pc' = [pc EXCEPT ![p] = "idle"]
  /\ req' = [req EXCEPT ![p] = NoRequest]
  /\ res' = [res EXCEPT ![p] = NoResponse]
  /\ audit_events' = [audit_events EXCEPT ![p] = {}]
  /\ UNCHANGED <<challenges, nChallenges, nUserIds, users, now, verifiedTokens>>

\* any stored token counts, whatever its exp
isAuthenticatedAnyToken(token) == token # NoToken

\* api.js:163-196: a token is in storage and its exp, in seconds, is above
\* Date.now() / 1000
isAuthenticated(token) == token # NoToken /\ token.payload.exp * 1000 > now

\* api.js:185-188: what localStorage holds after a call of isAuthenticated,
\* which removes a token that is not valid
afterIsAuthenticated(token) == IF isAuthenticated(token) THEN token ELSE NoToken

\* the tabs of the page the model follows
Tabs == {"register", "login", "dashboard"}

\* app.js:387-401: the login handler of the browser has the response of a
\* successful assertion verify: it stores the token and switches to the
\* dashboard tab, whose case calls isAuthenticated (app.js:235-242)
ClientLogin(p) ==
  /\ pc[p] = "done"
  /\ req[p].kind = "authVerify"
  /\ res[p].status = 200
  /\ authToken' = afterIsAuthenticated(res[p].token)
  /\ activeTab' = "dashboard"
  /\ sessions' = sessions \cup {res[p].token}
  /\ pc' = [pc EXCEPT ![p] = "idle"]
  /\ req' = [req EXCEPT ![p] = NoRequest]
  /\ res' = [res EXCEPT ![p] = NoResponse]
  /\ audit_events' = [audit_events EXCEPT ![p] = {}]
  /\ UNCHANGED <<challenges, nChallenges, nUserIds, users, now, verifiedTokens, transactions>>

\* app.js:202-250: the user clicks a tab; the tab is shown and its case calls
\* isAuthenticated
switchToTab(tabName) ==
  /\ activeTab' = tabName
  /\ authToken' = afterIsAuthenticated(authToken)
  /\ UNCHANGED <<challenges, nChallenges, nUserIds, users, audit_events, now, pc, req,
                 res, verifiedTokens, sessions, transactions>>

\* app.js:657-667 (run every 30 seconds, app.js:59): without a valid token
\* the client is sent to the login tab unless it shows the register or the
\* login tab already; with a valid token only warnings are shown
\* (app.js:669-702; the branch for timeLeft <= 0 is not reached, the token
\* being valid there)
checkTokenExpiration ==
  /\ IF ~isAuthenticated(authToken)
     THEN /\ authToken' = NoToken
          /\ activeTab' = IF activeTab \in {"register", "login"} THEN activeTab ELSE "login"
     ELSE UNCHANGED <<authToken, activeTab>>
  /\ UNCHANGED <<challenges, nChallenges, nUserIds, users, audit_events, now, pc, req,
                 res, verifiedTokens, sessions, transactions>>

\* app.js:832-839
logout ==
  /\ authToken # NoToken
  /\ authToken' = NoToken
  /\ activeTab' = "register"
  /\ UNCHANGED <<challenges, nChallenges, nUserIds, users, audit_events, now, pc, req,
                 res, verifiedTokens, sessions, transactions>>

\* the clock reaches the very instant at which the stored token expires
TickToExpiry ==
  /\ authToken # NoToken
  /\ now < authToken.payload.exp * 1000
  /\ now' = authToken.payload.exp * 1000
  /\ UNCHANGED <<challenges, nChallenges, nUserIds, users, audit_events, pc, req, res,
                 verifiedTokens, sessions, authToken, activeTab, transactions>>

\* webauthn.js:44 and database.js:10-15: the server process is started anew
\* while no request is being served.  The ledger is a Map of the module and
\* starts empty; the users table is what the database file holds, or empty
\* when the database is ':memory:'.  The signing secret is the same.
Restart ==
  /\ \A p \in Procs : pc[p] = "idle"
  /\ challenges' = <<>>
  /\ users' \in {users, <<>>}
  /\ UNCHANGED <<nChallenges, nUserIds, audit_events, now, pc, req, res,
                 verifiedTokens, sessions, authToken, activeTab, transactions>>

\* the client has read the response; the handler slot serves the next request
Close(p) ==
  /\ pc[p] = "done"
  /\ pc' = [pc EXCEPT ![p] = "idle"]
  /\ req' = [req EXCEPT ![p] = NoRequest]
  /\ res' = [res EXCEPT ![p] = NoResponse]
  /\ audit_events' = [audit_events EXCEPT ![p] = {}]
  /\ UNCHANGED <<challenges, nChallenges, nUserIds, users, now, verifiedTokens, sessions, authToken, activeTab, transactions>>

\* the clock moves on to a later instant
Tick ==
  /\ \E t \in TimePoints : t > now /\ now' = t
  /\ UNCHANGED <<challenges, nChallenges, nUserIds, users, audit_events, pc, req, res,
                 verifiedTokens, sessions, authToken, activeTab, transactions>>

(***************************************************************************)
(* Specifications                                                           *)
(***************************************************************************)
Next ==
  \/ \E username \in Usernames \cup {Nil}, password \in Passwords \cup {Nil} :
       RegisterChallenge("p1", username, password)
  \/ RegisterChallengeStore("p1")
  \/ \E r \in RegisterVerifyRequests : RegisterVerify("p1", r.credential, r.challenge)
  \/ RegisterVerifyFinish("p1")
  \/ RegisterVerifyCreate("p1")
  \/ \E username \in Usernames \cup {Nil}, password \in Passwords \cup {Nil} :
       Login("p1", username, password)
  \/ LoginPassword("p1")
  \/ \E userId \in UserIds \cup {NoId}, username \in Usernames \cup {Nil} :
       AuthChallenge("p1", userId, username)
  \/ GenerateAuthenticationChallengeLookup("p1")
  \/ GenerateAuthenticationChallengeStore("p1")
  \/ \E r \in AuthVerifyRequests : AuthVerify("p1", r.credential, r.challenge)
  \/ AuthVerifyLookup("p1")
  \/ AuthVerifyCounter("p1")
  \/ AuthVerifyFinish("p1")
  \/ Close("p1")
  \/ Tick

Spec == Init /\ [][Next]_vars

\* Two handlers serve requests at once, interleaving at their awaits.  One
\* user registers and logs in; the clients send genuine responses of the
\* registered authenticator, with any counter, for any token.
GenuineAttestations ==
  {c \in Attestations : Flaws(c, c.challenge) = 0}
GenuineAssertions ==
  {c \in Assertions : c.id \in EnrolKeys /\ Flaws(c, c.challenge) = 0}

NextConc ==
  \/ RegisterChallenge("p1", "alice", "longpassword1")
  \/ RegisterChallengeStore("p1")
  \/ \E c \in GenuineAttestations : RegisterVerify("p1", c, c.challenge)
  \/ RegisterVerifyFinish("p1")
  \/ RegisterVerifyCreate("p1")
  \/ \E p \in Procs :
       \/ Login(p, "alice", "longpassword1")
       \/ LoginPassword(p)
       \/ GenerateAuthenticationChallengeLookup(p)
       \/ GenerateAuthenticationChallengeStore(p)
       \/ \E c \in GenuineAssertions : AuthVerify(p, c, c.challenge)
       \/ AuthVerifyLookup(p)
       \/ AuthVerifyCounter(p)
       \/ AuthVerifyFinish(p)
       \/ Close(p)

SpecConc == Init /\ [][NextConc]_vars

\* One user registers and logs in with genuine responses; the client keeps
\* the session tokens and presents them, or tokens it made up, to a protected
\* route while time passes.
ForgedTokens ==
  {[t EXCEPT !.signedWith = "another-secret"] : t \in sessions}
    \cup {[NoToken EXCEPT !.signedWith = "malformed"]}

NextSession ==
  \/ RegisterChallenge("p1", "alice", "longpassword1")
  \/ RegisterChallengeStore("p1")
  \/ \E c \in GenuineAttestations : RegisterVerify("p1", c, c.challenge)
  \/ RegisterVerifyFinish("p1")
  \/ RegisterVerifyCreate("p1")
  \/ Login("p1", "alice", "longpassword1")
  \/ LoginPassword("p1")
  \/ GenerateAuthenticationChallengeLookup("p1")
  \/ GenerateAuthenticationChallengeStore("p1")
  \/ \E c \in GenuineAssertions : AuthVerify("p1", c, c.challenge)
  \/ AuthVerifyLookup("p1")
  \/ AuthVerifyCounter("p1")
  \/ AuthVerifyFinish("p1")
  \/ \E token \in sessions \cup ForgedTokens \cup {NoToken} : Dashboard("p1", token)
  \/ \E token \in sessions : Refresh(token)
  \/ KeepSession("p1")
  \/ Close("p1")
  \/ Restart
  \/ Tick

SpecSession == Init /\ [][NextSession]_vars

\* Two users are enrolled, alice with authenticator k1 and bob with k2, as two
\* completed registrations leave them, and the process has been restarted
\* since (the ledger is empty).  Both log in; the clients answer any challenge
\* with any credential id, signing key and counter, on the genuine site.
EnrolledUser(id, username, key) ==
  [id |-> id, username |-> username,
   password_hash |-> hashPassword("longpassword1").hash,
   credential_id |-> credentialIdOf(key),
   credential_public_key |-> bufferToBase64URLString(publicKeyOf(key)),
   credential_counter |-> 0, balance |-> InitialBalance,
   last_login |-> NoTime, rowid |-> id]

InitEnrolled ==
  /\ challenges = <<>>
  /\ nChallenges = 0
  /\ nUserIds = 2
  /\ users = MapSet(MapSet(<<>>, 1, EnrolledUser(1, "alice", "k1")),
                    2, EnrolledUser(2, "bob", "k2"))
  /\ audit_events = [p \in Procs |-> {}]
  /\ now = 0
  /\ pc = [p \in Procs |-> "idle"]
  /\ req = [p \in Procs |-> NoRequest]
  /\ res = [p \in Procs |-> NoResponse]
  /\ verifiedTokens = {}
  /\ sessions = {}
  /\ authToken = NoToken
  /\ activeTab = "register"
  /\ transactions = <<>>

SiteAssertions ==
  {c \in Assertions : /\ c.origin = WEBAUTHN_CONFIG.expectedOrigin
                      /\ c.rpId = WEBAUTHN_CONFIG.rpID
                      /\ c.uv}

NextEnrolled ==
  \/ \E username \in Usernames : Login("p1", username, "longpassword1")
  \/ LoginPassword("p1")
  \/ GenerateAuthenticationChallengeLookup("p1")
  \/ GenerateAuthenticationChallengeStore("p1")
  \/ \E c \in SiteAssertions, challenge \in Tokens : AuthVerify("p1", c, challenge)
  \/ AuthVerifyLookup("p1")
  \/ AuthVerifyCounter("p1")
  \/ AuthVerifyFinish("p1")
  \/ Close("p1")

SpecEnrolled == InitEnrolled /\ [][NextEnrolled]_vars

\* Two handlers serve registrations at once: alice registers with one
\* password and bob with another, both flows in flight together, and the
\* clients answer either challenge with a genuine attestation.
NextRegister ==
  \E p \in Procs :
    \/ RegisterChallenge(p, "alice", "longpassword1")
    \/ RegisterChallenge(p, "bob", "correcthorse")
    \/ RegisterChallengeStore(p)
    \/ \E c \in GenuineAttestations : RegisterVerify(p, c, c.challenge)
    \/ RegisterVerifyFinish(p)
    \/ RegisterVerifyCreate(p)
    \/ Close(p)

SpecRegister == Init /\ [][NextRegister]_vars

\* One user registers and logs in from a browser; the browser keeps the
\* token, the user clicks tabs and logs out, the 30-second timer of the page
\* fires, and time passes.
NextClient ==
  \/ RegisterChallenge("p1", "alice", "longpassword1")
  \/ RegisterChallengeStore("p1")
  \/ \E c \in GenuineAttestations : RegisterVerify("p1", c, c.challenge)
  \/ RegisterVerifyFinish("p1")
  \/ RegisterVerifyCreate("p1")
  \/ Login("p1", "alice", "longpassword1")
  \/ LoginPassword("p1")
  \/ GenerateAuthenticationChallengeLookup("p1")
  \/ GenerateAuthenticationChallengeStore("p1")
  \/ \E c \in GenuineAssertions : AuthVerify("p1", c, c.challenge)
  \/ AuthVerifyLookup("p1")
  \/ AuthVerifyCounter("p1")
  \/ AuthVerifyFinish("p1")
  \/ ClientLogin("p1")
  \/ \E tabName \in Tabs : switchToTab(tabName)
  \/ checkTokenExpiration
  \/ logout
  \/ Close("p1")
  \/ Tick
  \/ TickToExpiry

SpecClient == Init /\ [][NextClient]_vars

\* Alice and bob are enrolled; alice logs in with her authenticator, her
\* client keeps the session token and sends transfers with it, or with no
\* token, to two handlers at once.
NextTransfer ==
  \/ Login("p1", "alice", "longpassword1")
  \/ LoginPassword("p1")
  \/ GenerateAuthenticationChallengeLookup("p1")
  \/ GenerateAuthenticationChallengeStore("p1")
  \/ \E c \in GenuineAssertions : AuthVerify("p1", c, c.challenge)
  \/ AuthVerifyLookup("p1")
  \/ AuthVerifyCounter("p1")
  \/ AuthVerifyFinish("p1")
  \/ KeepSession("p1")
  \/ \E p \in Procs, token \in sessions \cup {NoToken} :
       \E amount \in JsonAmounts, description \in Descriptions :
         Transfer(p, token, amount, description)
  \/ \E p \in Procs : Close(p)

SpecTransfer == InitEnrolled /\ [][NextTransfer]_vars

(***************************************************************************)
(* Properties                                                               *)
(***************************************************************************)
VerifyKinds == {"registerVerify", "authVerify"}

\* handler p starts to serve a request in this step
Begins(p) == pc[p] = "idle" /\ pc'[p] # "idle"

\* the verify function called for p's request has returned success
Accepted(p) ==
  /\ req[p].kind \in VerifyKinds
  /\ \/ pc[p] \in {"rv_hash", "av_counter"}
     \/ pc[p] = "done" /\ res[p].status = 200

\* p's verify request was turned down: an error status, no session token
Rejected(p) ==
  /\ pc[p] = "done"
  /\ res[p].status \in {400, 401}
  /\ res[p].token = NoToken

\* C1: once a verify function has returned success for a challenge token, the
\* token is not in the ledger, and every verify request that presents it
\* afterwards is turned down as an invalid challenge, with no user created and
\* no session token sent.
C1_ReplayResistance ==
  [][ /\ \A t \in verifiedTokens' : t \notin DOMAIN challenges'
      /\ \A p \in Procs :
           (Begins(p) /\ req'[p].kind \in VerifyKinds
              /\ req'[p].challenge \in verifiedTokens)
           => /\ Rejected(p)'
              /\ res'[p].error = "Invalid or expired challenge"
              /\ users' = users ]_vars

\* C1 witness: a verify request presenting an already used token was turned down
C1_Witness ==
  \E p \in Procs :
    /\ Rejected(p)
    /\ req[p].kind = "authVerify"
    /\ req[p].challenge \in verifiedTokens
    /\ res[p].error = "Invalid or expired challenge"

\* C2: after a verify request that found its challenge was turned down by the
\* attestation/assertion check, the token is no longer in the ledger.
C2_FailedVerifyBurnsChallenge ==
  \A p \in Procs :
    (Rejected(p) /\ req[p].kind \in VerifyKinds
       /\ res[p].error # "Invalid or expired challenge")
    => req[p].challenge \notin DOMAIN challenges

\* C3: an authentication challenge enters the ledger only from a login
\* request whose password was verified for the same user.
C3_PasswordBeforeChallenge ==
  [][ \A t \in DOMAIN challenges' \ DOMAIN challenges :
        challenges'[t].type = "authentication"
        => \E p \in Procs :
             /\ pc[p] = "ga_options"
             /\ req[p].kind = "login"
             /\ req[p].local.userId = challenges'[t].userId ]_vars

\* the age a challenge had when p's verify request arrived
AgeAtArrival(p) == req[p].at - req[p].local.challengeData.timestamp

\* the verify function called for p's request returns success in this step
Accepts(p) ==
  \/ pc[p] = "rv_verify" /\ pc'[p] = "rv_hash"
  \/ pc[p] = "av_verify" /\ pc'[p] = "av_counter"

\* C4: no verify function returns success for a challenge that was older than
\* the TTL when the request arrived.
C4_ExpiredChallengeRejected ==
  [][ \A p \in Procs : Accepts(p) => ~(AgeAtArrival(p) > maxAge) ]_vars

\* an assertion that passes every check but the counter's: it answers the
\* presented challenge on the configured site with the registered key
OtherwiseValid(p) ==
  /\ Flaws(req[p].credential, req[p].challenge) = 0
  /\ req[p].local.challengeData.userId \in DOMAIN users
  /\ credentialIdOf(req[p].credential.id)
       = users[req[p].local.challengeData.userId].credential_id

\* the counter the assertion reports, and the stored one it is checked against
reportedCounter(p) == req[p].credential.counter
storedCounter(p) == req[p].local.storedCounter

Max(a, b) == IF a >= b THEN a ELSE b

\* the verdict on p's assertion is acted upon in this step
Verdict(p) == pc[p] = "av_verify" /\ pc'[p] # "av_verify"

\* C6 as stated: an assertion reporting a counter <= the stored one is turned
\* down with no session token; an otherwise valid one reporting a greater
\* counter is accepted and the reported counter becomes the stored one.
C6_CounterCheck ==
  [][ \A p \in Procs :
        Verdict(p) =>
          /\ reportedCounter(p) <= storedCounter(p)
               => Rejected(p)' /\ users' = users
          /\ (reportedCounter(p) > storedCounter(p) /\ OtherwiseValid(p))
               => /\ pc'[p] = "av_counter"
                  /\ users'[req[p].local.challengeData.userId].credential_counter
                       = reportedCounter(p) ]_vars

\* C6 amended: an assertion reporting a counter <= the stored one it is checked
\* against is turned down with no session token unless both counters are 0;
\* an otherwise valid assertion reporting a greater counter, or 0 against a
\* stored 0, is accepted, and the stored counter becomes the reported one
\* unless the store holds a greater one by then.
C6_CounterCheckUnlessBothZero ==
  [][ \A p \in Procs :
        Verdict(p) =>
          /\ (reportedCounter(p) <= storedCounter(p)
                /\ (reportedCounter(p) > 0 \/ storedCounter(p) > 0))
               => Rejected(p)' /\ users' = users
          /\ ((reportedCounter(p) > storedCounter(p)
                 \/ (reportedCounter(p) = 0 /\ storedCounter(p) = 0))
                /\ OtherwiseValid(p))
               => /\ pc'[p] = "av_counter"
                  /\ users'[req[p].local.challengeData.userId].credential_counter
                       = Max(reportedCounter(p),
                             users[req[p].local.challengeData.userId].credential_counter) ]_vars

\* C6 witness: an otherwise valid assertion repeating the stored counter, which
\* is not 0, was turned down by the counter check
C6_Witness ==
  \E p \in Procs :
    /\ Rejected(p)
    /\ req[p].kind = "authVerify"
    /\ res[p].error = "Response counter value was lower than expected"
    /\ reportedCounter(p) > 0
    /\ \E u \in DOMAIN users :
         /\ users[u].credential_id = credentialIdOf(req[p].credential.id)
         /\ users[u].credential_counter = reportedCounter(p)

\* C5: no two handlers both answer success to assertions presented with the
\* same challenge token.
C5_AtomicConsume ==
  \A p \in Procs, q \in Procs :
    (p # q /\ req[p].kind = "authVerify" /\ req[q].kind = "authVerify"
       /\ pc[p] = "done" /\ res[p].status = 200
       /\ pc[q] = "done" /\ res[q].status = 200)
    => req[p].challenge # req[q].challenge

\* C7: no step lowers the stored signature counter of any user.
C7_CounterNeverDecreases ==
  [][ \A u \in DOMAIN users :
        users'[u].credential_counter >= users[u].credential_counter ]_vars

\* C7 witness: a handler whose assertion was checked against a counter read
\* before another handler's update has asked the store for a lower counter
\* than the stored one
C7_Witness ==
  \E p \in Procs :
    /\ pc[p] = "av_counter"
    /\ req[p].local.verification.authenticationInfo.newCounter
         < users[req[p].local.challengeData.userId].credential_counter

\* C8: no two rows of users carry the same username.
C8_UniqueDisplayNames ==
  \A a \in DOMAIN users, b \in DOMAIN users :
    a # b => users[a].username # users[b].username

\* C9: a verify function returns success only for a response whose origin and
\* rpId are the configured ones, so no user is created and no session token
\* is sent from any other response.
C9_OriginBinding ==
  \A p \in Procs :
    Accepted(p) => /\ req[p].credential.origin = WEBAUTHN_CONFIG.expectedOrigin
                   /\ req[p].credential.rpId = WEBAUTHN_CONFIG.rpID

\* C9 witness: an assertion for a live challenge, signed for another origin,
\* was turned down
C9_Witness ==
  \E p \in Procs :
    /\ Rejected(p)
    /\ req[p].kind = "authVerify"
    /\ res[p].error = "Unexpected authentication response origin"
    /\ req[p].credential.origin # WEBAUTHN_CONFIG.expectedOrigin

\* C10: a verify function returns success only for a response that embeds the
\* very challenge token the request presents.
C10_ChallengeBinding ==
  \A p \in Procs : Accepted(p) => req[p].credential.challenge = req[p].challenge

\* C10 witness: an assertion signed over one challenge was turned down when
\* presented with another token that is a live authentication challenge
C10_Witness ==
  \E p \in Procs :
    /\ Rejected(p)
    /\ req[p].kind = "authVerify"
    /\ res[p].error = "Unexpected authentication response challenge"
    /\ req[p].credential.challenge # req[p].challenge
    /\ req[p].challenge \in DOMAIN challenges
    /\ challenges[req[p].challenge].type = "authentication"

\* a verify request of the given kind arrives at p in this step and presents
\* a token stored for the given purpose
Presents(p, kind, type) ==
  /\ Begins(p)
  /\ req'[p].kind = kind
  /\ req'[p].challenge \in DOMAIN challenges
  /\ challenges[req'[p].challenge].type = type

\* C11: a verify request that presents a challenge issued for the other
\* purpose is turned down at once with 'Invalid or expired challenge'; the
\* ledger and the users are left as they were.
C11_PurposeBinding ==
  [][ \A p \in Procs :
        (Presents(p, "authVerify", "registration")
           \/ Presents(p, "registerVerify", "authentication"))
        => /\ Rejected(p)'
           /\ res'[p].error = "Invalid or expired challenge"
           /\ challenges' = challenges
           /\ users' = users ]_vars

\* C11 witness: an assertion presented with a stored registration challenge
\* was turned down
C11_Witness ==
  \E p \in Procs :
    /\ Rejected(p)
    /\ req[p].kind = "authVerify"
    /\ res[p].error = "Invalid or expired challenge"
    /\ req[p].challenge \in DOMAIN challenges
    /\ challenges[req[p].challenge].type = "registration"

\* the login request p has answered named no user
UnknownName(p) == ~ \E u \in DOMAIN users : users[u].username = req[p].username

\* the login request p has answered named a user and gave a password that is
\* not that user's
WrongPassword(p) ==
  /\ findUserByUsername(req[p].username).success
  /\ ~verifyPassword(req[p].password,
                     findUserByUsername(req[p].username).user.password_hash).isValid

\* C12: the response to a login naming no user and the response to a login
\* with a wrong password for an existing user are the same response: status
\* 401, error 'Invalid username or password', nothing else set.
C12_EnumerationResistance ==
  \A p \in Procs :
    (pc[p] = "done" /\ req[p].kind = "login"
       /\ req[p].username # Nil /\ req[p].password # Nil
       /\ (UnknownName(p) \/ WrongPassword(p)))
    => res[p] = Response(401, "Invalid username or password")

\* C12 witness: a login with a wrong password for an existing user was answered
C12_Witness ==
  \E p \in Procs :
    /\ pc[p] = "done" /\ req[p].kind = "login"
    /\ req[p].password # Nil
    /\ WrongPassword(p)
    /\ res[p].status = 401

\* a request to begin a registration arrives at p in this step
BeginsRegistration(p) == Begins(p) /\ req'[p].kind = "registerChallenge"

C14_WeakPassword ==
  [][ \A p \in Procs :
        (BeginsRegistration(p)
           /\ req'[p].username # Nil
           /\ (req'[p].password = Nil \/ length(req'[p].password) < 8))
        => /\ pc'[p] = "done"
           /\ res'[p] = Response(400, "Password must be at least 8 characters long")
           /\ challenges' = challenges /\ nChallenges' = nChallenges
           /\ users' = users ]_vars

\* C14 witness: a registration with a 5-character password was answered 400
C14_Witness ==
  \E p \in Procs :
    /\ pc[p] = "done" /\ req[p].kind = "registerChallenge"
    /\ req[p].password = "short"
    /\ res[p].status = 400

\* p has answered a login with a session token
SessionIssued(p) == pc[p] = "done" /\ req[p].kind = "authVerify" /\ res[p].status = 200

\* C15: the token of every successful login expires 1800 seconds after its
\* issued-at, and the expiresAt of the response (milliseconds) is within one
\* second of that expiry.
C15_SessionLifetime ==
  \A p \in Procs :
    SessionIssued(p) =>
      /\ res[p].token.payload.exp = res[p].token.payload.iat + 1800
      /\ res[p].expiresAt - res[p].token.payload.exp * 1000 <= 1000
      /\ res[p].token.payload.exp * 1000 - res[p].expiresAt <= 1000

\* C15 witness: a session token was issued at an instant that is not a whole
\* second, so the two expiry values differ
C15_Witness ==
  \E p \in Procs :
    /\ SessionIssued(p)
    /\ res[p].expiresAt # res[p].token.payload.exp * 1000

\* the instant, in milliseconds, at which a token expires
expiresAtMs(token) == token.payload.exp * 1000

\* C16: a session token a client holds verifies at every instant before its
\* expiry and fails with 'Token expired' at every instant after it, and a
\* token that has failed as expired fails as expired from then on.
C16_SessionExpiryBoundary ==
  [][ \A t \in sessions :
        /\ now < expiresAtMs(t) => verifyToken(t).success
        /\ now > expiresAtMs(t) => /\ ~verifyToken(t).success
                                   /\ verifyToken(t).error = "Token expired"
        /\ verifyToken(t).error = "Token expired"
             => (verifyToken(t).error = "Token expired")' ]_vars

\* C16 witness: a protected request with a held token, sent after the token's
\* expiry, was turned down as expired
C16_Witness ==
  \E p \in Procs :
    /\ pc[p] = "done" /\ req[p].kind = "dashboard"
    /\ req[p].token \in sessions
    /\ now > expiresAtMs(req[p].token)
    /\ res[p].status = 401 /\ res[p].error = "Token expired"

\* a request for the protected route arrives at p in this step
BeginsProtected(p) == Begins(p) /\ req'[p].kind = "dashboard"

\* the token is signed with the server's secret and the clock has not reached
\* its expiry
SignedAndUnexpired(token) ==
  /\ token.signedWith = JWT_CONFIG.secret
  /\ now \div 1000 < token.payload.exp

\* C17: the handler of the protected route runs only for a request whose
\* token is signed with the server's secret and has not expired; a request
\* with no token, a malformed or wrongly signed one, or an expired one is
\* answered 401 with no user data.
C17_ProtectedNeedsSession ==
  [][ \A p \in Procs :
        BeginsProtected(p) =>
          /\ res'[p].status # 401 => SignedAndUnexpired(req'[p].token)
          /\ ~SignedAndUnexpired(req'[p].token)
               => res'[p].status = 401 /\ res'[p].userId = NoId ]_vars

\* C17 witness: a protected request carrying a held token re-signed with
\* another secret was answered 401
C17_Witness ==
  \E p \in Procs :
    /\ pc[p] = "done" /\ req[p].kind = "dashboard"
    /\ req[p].token.signedWith = "another-secret"
    /\ [req[p].token EXCEPT !.signedWith = JWT_CONFIG.secret] \in sessions
    /\ res[p].status = 401

\* C18: whether a protected request's token is accepted is decided by its
\* signature and the clock against its expiry alone.
C18_StatelessValidity ==
  [][ \A p \in Procs :
        (BeginsProtected(p) /\ req'[p].token # NoToken)
        => (res'[p].status # 401 <=> SignedAndUnexpired(req'[p].token)) ]_vars

\* C19: a session token comes into a client's hands only from the response
\* of a successful assertion verification.
C19_OnlyVerifyAssertionMints ==
  [][ \A t \in sessions' \ sessions :
        \E p \in Procs : SessionIssued(p) /\ res[p].token = t ]_vars

\* C20: when a login has been answered with a session token, the user's
\* stored counter is the one the assertion reported, the challenge is not in
\* the ledger, and the request has added an authentication_success and a
\* login_success row for the user to audit_events.
C20_SuccessPostState ==
  \A p \in Procs :
    SessionIssued(p) =>
      /\ users[res[p].userId].credential_counter = req[p].credential.counter
      /\ req[p].challenge \notin DOMAIN challenges
      /\ \E e \in audit_events[p] :
           e.event_type = "authentication_success" /\ e.user_id = res[p].userId
      /\ \E e \in audit_events[p] :
           e.event_type = "login_success" /\ e.user_id = res[p].userId

\* p's finished request made a protocol state transition: a registration
\* challenge was issued, a registration was verified or rejected, a password
\* was verified or rejected, an assertion was verified or rejected
Transition(p) ==
  /\ pc[p] = "done"
  /\ \/ req[p].kind = "registerChallenge" /\ res[p].status = 200
     \/ req[p].kind \in VerifyKinds /\ (res[p].status = 200 \/ Rejected(p))
     \/ req[p].kind = "login" /\ res[p].status \in {200, 401}

\* C21: every finished request that made a protocol state transition has
\* appended a record to the event sink, and the record of a rejected password
\* attempt carries the reason user_not_found or invalid_password.
C21_EveryTransitionRecorded ==
  \A p \in Procs :
    /\ Transition(p) => audit_events[p] # {}
    /\ (Transition(p) /\ req[p].kind = "login" /\ res[p].status = 401)
       => \E e \in audit_events[p] :
            /\ e.event_type = "login_failure"
            /\ e.reason \in {"user_not_found", "invalid_password"}

\* handler p performs an issue or a consume operation on the ledger in this
\* step: it stores a new challenge, or looks up the one a verify request names
LedgerOperation(p) ==
  \/ pc[p] \in {"rc_options", "ga_options"} /\ pc'[p] = "done"
  \/ Begins(p) /\ req'[p].kind \in VerifyKinds

\* C23: after every issue and every consume operation, of registration and
\* of authentication alike, no ledger entry older than 5 minutes remains.
C23_SweepOnEveryOperation ==
  [][ \A p \in Procs :
        LedgerOperation(p)
        => \A t \in DOMAIN challenges' :
             now - challenges'[t].timestamp <= maxAge ]_vars

\* handler p ends its request in this step, in a branch that emits an event,
\* and the event sink has recorded nothing for it
RecordingFailed(p) ==
  /\ pc[p] # "done" /\ pc'[p] = "done"
  /\ audit_events'[p] = audit_events[p]
  /\ \/ pc[p] \in {"rc_options", "ga_options"}
     \/ req'[p].kind \in VerifyKinds /\ res'[p].status # 200

\* C22: recording an event is never a precondition. When the sink records
\* nothing for the event a step emits, the step still has its outcome: an
\* issued challenge is stored and returned with 200, a rejection is returned
\* as a rejection with the store untouched; and an accepted assertion whose
\* authentication_success record was not taken still yields 200, a session
\* token, the consumed challenge and the last-login update.
C22_RecordingNotPrecondition ==
  [][ \A p \in Procs :
        /\ RecordingFailed(p)
           => /\ res'[p].status # 500
              /\ pc[p] \in {"rc_options", "ga_options"}
                 => /\ res'[p].status = 200
                    /\ res'[p].challenge \in DOMAIN challenges' \ DOMAIN challenges
              /\ req'[p].kind \in VerifyKinds
                 => /\ Rejected(p)'
                    /\ users' = users
        /\ ( /\ pc[p] = "av_counter" /\ pc'[p] = "done"
             /\ ~ \E e \in audit_events'[p] : e.event_type = "authentication_success" )
           => /\ res'[p].status = 200
              /\ res'[p].token # NoToken
              /\ req[p].challenge \notin DOMAIN challenges'
              /\ users'[res'[p].userId].last_login = now \div 1000 ]_vars

\* C22 witness: a login whose password_verified event was not recorded has
\* ended with 200 and its authentication challenge in the ledger
C22_Witness ==
  \E p \in Procs :
    /\ pc[p] = "done"
    /\ req[p].kind = "login"
    /\ res[p].status = 200
    /\ audit_events[p] = {}
    /\ res[p].challenge \in DOMAIN challenges
    /\ challenges[res[p].challenge].type = "authentication"

\* C24: an otherwise valid assertion that reports the counter it is checked
\* against is accepted when that counter is 0, with the stored counter left as
\* it is and, at the end of the request, a session token issued; it is turned
\* down, with the store untouched, when that counter is above 0.
C24_ZeroCounterTolerance ==
  [][ \A p \in Procs :
        /\ (Verdict(p) /\ OtherwiseValid(p) /\ reportedCounter(p) = storedCounter(p))
           => IF storedCounter(p) = 0
              THEN /\ pc'[p] = "av_counter"
                   /\ users' = users
              ELSE /\ Rejected(p)'
                   /\ users' = users
        /\ ( /\ pc[p] = "av_counter" /\ pc'[p] = "done"
             /\ reportedCounter(p) = 0 /\ storedCounter(p) = 0 )
           => /\ res'[p].status = 200
              /\ res'[p].token # NoToken ]_vars

\* C24 witness: a session was issued for an assertion reporting counter 0 and
\* the stored counter of its identity is 0
C24_Witness ==
  \E p \in Procs :
    /\ SessionIssued(p)
    /\ req[p].credential.counter = 0
    /\ res[p].token # NoToken
    /\ users[res[p].userId].credential_counter = 0

\* C25: for every user id and name, the token generateToken makes verifies at
\* once with a payload carrying that id and that name; a token issued to a
\* session verifies, with the id and name of its user, as long as the clock
\* has not reached its expiry; and no token signed with another secret, nor a
\* malformed or missing one, verifies.
C25_TokenRoundTrip ==
  /\ \A u \in UserIds, n \in Usernames :
       LET verification == verifyToken(generateToken(u, n).token)
       IN /\ verification.success
          /\ verification.payload.userId = u
          /\ verification.payload.username = n
  /\ \A p \in Procs :
       (SessionIssued(p) /\ now < expiresAtMs(res[p].token))
       => LET verification == verifyToken(res[p].token)
          IN /\ verification.success
             /\ verification.payload.userId = res[p].userId
             /\ res[p].userId \in DOMAIN users
                => verification.payload.username = users[res[p].userId].username
  /\ \A t \in sessions :
       now < expiresAtMs(t) => verifyToken(t).success
  /\ \A t \in ForgedTokens \cup {NoToken} : ~ verifyToken(t).success

\* C25 witness: a kept session token, presented after the second of its issue
\* and before its expiry, was verified and its payload named the user
C25_Witness ==
  \E p \in Procs :
    /\ pc[p] = "done" /\ req[p].kind = "dashboard"
    /\ req[p].token \in sessions
    /\ res[p].status = 200
    /\ res[p].userId = req[p].token.payload.userId
    /\ now > req[p].token.payload.iat * 1000
    /\ now < expiresAtMs(req[p].token)

C27_CredentialFrame ==
  [][ \A u \in DOMAIN users \cap DOMAIN users' :
        /\ users'[u].id = users[u].id
        /\ users'[u].username = users[u].username
        /\ users'[u].password_hash = users[u].password_hash
        /\ users'[u].credential_id = users[u].credential_id
        /\ users'[u].credential_public_key = users[u].credential_public_key ]_vars

\* C27 witness: a user has logged in with an assertion that advanced the
\* counter, and the row still binds the credential it was created with
C27_Witness ==
  \E p \in Procs :
    /\ SessionIssued(p)
    /\ res[p].userId \in DOMAIN users
    /\ users[res[p].userId].credential_counter > 0
    /\ users[res[p].userId].last_login # NoTime
    /\ users[res[p].userId].credential_id = credentialIdOf(req[p].credential.id)

\* the identity p's request names is not in the store
UnknownIdentity(p) ==
  IF req[p].username # Nil THEN UnknownName(p) ELSE req[p].userId \notin DOMAIN users

\* C28: the allowed-credential list sent with an authentication challenge
\* holds exactly the credential id bound to the user the challenge is stored
\* for; a login or challenge request that names no stored identity ends
\* without a challenge and leaves the ledger as it is; and every
\* authentication challenge in the ledger is for a user with a credential.
C28_AllowedCredential ==
  [][ /\ \A p \in Procs :
           /\ (pc[p] = "ga_options" /\ pc'[p] = "done")
              => /\ res'[p].userId \in DOMAIN users
                 /\ users[res'[p].userId].credential_id # NoBytes
                 /\ res'[p].allowCredentials = {users[res'[p].userId].credential_id}
                 /\ challenges'[res'[p].challenge].type = "authentication"
                 /\ challenges'[res'[p].challenge].userId = res'[p].userId
           /\ (Begins(p) /\ req'[p].kind \in {"login", "authChallenge"}
                 /\ UnknownIdentity(p)')
              => /\ pc'[p] = "done"
                 /\ res'[p].status # 200
                 /\ res'[p].challenge = NoId
                 /\ challenges' = challenges
      /\ \A t \in DOMAIN challenges' \ DOMAIN challenges :
           challenges'[t].type = "authentication"
           => /\ challenges'[t].userId \in DOMAIN users
              /\ users[challenges'[t].userId].credential_id # NoBytes ]_vars

\* C28 witness: a login has ended with a challenge and a list that holds the
\* one credential id of its user
C28_Witness ==
  \E p \in Procs :
    /\ pc[p] = "done" /\ req[p].kind = "login"
    /\ res[p].status = 200
    /\ res[p].challenge \in DOMAIN challenges
    /\ res[p].userId \in DOMAIN users
    /\ res[p].allowCredentials = {users[res[p].userId].credential_id}

\* handler p is about to persist the user of its verified registration, and
\* the name it registers was bound to another user after the pre-check
PersistsBoundName(p) ==
  /\ pc[p] = "rv_hash" /\ pc'[p] = "done"
  /\ req[p].kind = "registerVerify"
  /\ \E u \in DOMAIN users : users[u].username = req[p].local.username

\* C29: when a registration verify request reaches the insert with a name
\* that already belongs to a stored user, it ends with a client-error status
\* and the store is left as it was, holding only the first user of that name.
C29_DuplicateAtPersistence ==
  [][ \A p \in Procs :
        PersistsBoundName(p)
        => /\ res'[p].status \in 400..499
           /\ users' = users ]_vars

\* handler p ends an assertion verify request as rejected in this step
RejectsAssertion(p) ==
  /\ req'[p].kind = "authVerify"
  /\ pc[p] # "done" /\ pc'[p] = "done"
  /\ res'[p].status # 200

\* C30: the step that ends an assertion verify request as rejected leaves
\* every user row as it was and sends no session token; no earlier step of
\* the request writes a user row unless the assertion was verified, and a
\* request whose assertion was verified ends with 200 and a token.
C30_RejectedAssertionFrame ==
  [][ \A p \in Procs :
        /\ RejectsAssertion(p)
           => /\ users' = users
              /\ sessions' = sessions
              /\ res'[p].token = NoToken
        /\ (req[p].kind = "authVerify" /\ pc[p] \notin {"idle", "done"}
              /\ pc'[p] \notin {pc[p], "done", "av_counter"})
           => users' = users
        /\ (pc[p] = "av_counter" /\ pc'[p] = "done")
           => /\ res'[p].status = 200
              /\ res'[p].token # NoToken ]_vars

\* C30 witness: an assertion that reported a counter above the stored one was
\* rejected by the origin check, and the row of its credential's user still
\* has the counter and the empty last-login it had
C30_Witness ==
  \E p \in Procs, u \in DOMAIN users :
    /\ Rejected(p) /\ req[p].kind = "authVerify"
    /\ res[p].error = "Unexpected authentication response origin"
    /\ users[u].credential_id = credentialIdOf(req[p].credential.id)
    /\ req[p].credential.counter > users[u].credential_counter
    /\ users[u].last_login = NoTime

PasswordOf(username) == IF username = "alice" THEN "longpassword1" ELSE "correcthorse"

\* C32: a ledger entry is never altered while it is in the ledger; the entry
\* stored for a registration carries the pending id, the name and the password
\* of the request that asked for it; a verify request works with the entry
\* stored under the token it presents; and the row it creates carries the id,
\* the name and the hash of the password of that entry.  With alice and bob
\* registering at once, every row pairs its name with that name's password.
C32_StashBinding ==
  [][ /\ \A t \in DOMAIN challenges \cap DOMAIN challenges' :
           challenges'[t] = challenges[t]
      /\ \A p \in Procs :
           /\ (pc[p] = "rc_options" /\ pc'[p] = "done")
              => LET t == res'[p].challenge
                 IN /\ t \notin DOMAIN challenges
                    /\ challenges'[t].userID = req[p].local.userId
                    /\ challenges'[t].username = req[p].username
                    /\ challenges'[t].password = req[p].password
           /\ (Begins(p) /\ req'[p].kind = "registerVerify" /\ pc'[p] # "done")
              => req'[p].local.challengeData = challenges[req'[p].challenge]
           /\ (pc[p] = "rv_verify" /\ pc'[p] = "rv_hash")
              => LET challengeData == req[p].local.challengeData
                 IN /\ req'[p].local.userID = challengeData.userID
                    /\ req'[p].local.username = challengeData.username
                    /\ req'[p].local.passwordHashResult
                         = hashPassword(challengeData.password)
           /\ (pc[p] = "rv_hash" /\ pc'[p] = "done" /\ res'[p].status = 200)
              => LET row == users'[res'[p].userId]
                 IN /\ res'[p].userId \notin DOMAIN users
                    /\ row.id = req[p].local.userID
                    /\ row.username = req[p].local.username
                    /\ row.password_hash = req[p].local.passwordHashResult.hash
      /\ \A u \in DOMAIN users' :
           /\ users'[u].id = u
           /\ verifyPassword(PasswordOf(users'[u].username),
                             users'[u].password_hash).isValid ]_vars

\* C32 witness: alice's and bob's registrations were in flight together, the
\* later one was completed first, and both rows carry their own password
C32_Witness ==
  \E a, b \in DOMAIN users :
    /\ users[a].username = "alice" /\ users[b].username = "bob"
    /\ users[a].rowid # users[b].rowid
    /\ (users[a].id < users[b].id) # (users[a].rowid < users[b].rowid)
    /\ verifyPassword("longpassword1", users[a].password_hash).isValid
    /\ verifyPassword("correcthorse", users[b].password_hash).isValid

StoredTokenExpired == authToken # NoToken /\ authToken.payload.exp * 1000 <= now

\* the client shows the authenticated state: the dashboard of a stored token
ShowsAuthenticated == activeTab = "dashboard" /\ authToken # NoToken

\* a step of the client in which isAuthenticated is called on the stored token
CallsIsAuthenticated == checkTokenExpiration \/ \E tabName \in Tabs : switchToTab(tabName)

\* a step of the browser client
ClientStep == CallsIsAuthenticated \/ logout \/ \E p \in Procs : ClientLogin(p)

\* C34 as stated: once the stored token's exp is at or before the current
\* time, a call of isAuthenticated removes the token, the periodic check
\* leaves the client with no token and the login or register tab shown, and
\* the client never shows the authenticated state with an expired token.
C34_ClientSessionState ==
  [][ /\ (StoredTokenExpired /\ CallsIsAuthenticated) => authToken' = NoToken
      /\ (StoredTokenExpired /\ checkTokenExpiration)
         => /\ authToken' = NoToken
            /\ activeTab' \in {"login", "register"}
      /\ ~ (ShowsAuthenticated' /\ StoredTokenExpired') ]_vars

\* C34 amended: once the stored token's exp is at or before the current time,
\* a call of isAuthenticated removes the token and the periodic check leaves
\* the client with no token and the login or register tab shown; no step of
\* the client leads to the authenticated state with an expired token: the
\* client shows it only from the expiry to its own next step.
C34_ClientSessionStateUntilCheck ==
  [][ /\ (StoredTokenExpired /\ CallsIsAuthenticated) => authToken' = NoToken
      /\ (StoredTokenExpired /\ checkTokenExpiration)
         => /\ authToken' = NoToken
            /\ activeTab' \in {"login", "register"}
      /\ (ShowsAuthenticated' /\ StoredTokenExpired')
         => /\ ShowsAuthenticated
            /\ authToken' = authToken
            /\ ~ ClientStep ]_vars

\* C34 witness: a token the client had stored has expired, the periodic check
\* has run, and the client holds no token and shows the login tab
C34_Witness ==
  /\ authToken = NoToken
  /\ activeTab = "login"
  /\ \E t \in sessions : t.payload.exp * 1000 <= now

\* a step in which handler p serves a transfer request from arrival to response
TransferStep(p) == pc[p] = "idle" /\ pc'[p] = "done" /\ req'[p].kind = "transfer"

\* the user a transfer request is made for, NoId when its token is turned down
Sender(r) == IF authenticateToken(r.token).next THEN authenticateToken(r.token).user ELSE NoId

\* C35: no user's balance is ever negative; a transfer request of a signed-in
\* user whose amount is not a positive number or exceeds the user's current
\* balance is answered 400 and leaves the users' balances and the list of
\* transactions as they were.
C35_BalanceNeverNegative ==
  /\ [](\A u \in DOMAIN users : users[u].balance >= 0)
  /\ [][\A p \in Procs :
          (/\ TransferStep(p)
           /\ Sender(req'[p]) # NoId
           /\ \/ req'[p].amount.type # "number"
              \/ req'[p].amount.value <= 0
              \/ req'[p].amount.value > users[Sender(req'[p])].balance)
          => /\ res'[p].status = 400
             /\ users' = users
             /\ transactions' = transactions]_vars

\* C35 witness: after accepted transfers have used up the balance, a further
\* transfer of a positive amount has been turned down for insufficient balance
C35_Witness ==
  \E p \in Procs :
    /\ pc[p] = "done"
    /\ req[p].kind = "transfer"
    /\ req[p].amount.type = "number"
    /\ req[p].amount.value > 0
    /\ res[p].status = 400
    /\ res[p].error = "Insufficient balance"
    /\ Len(transactions) = 2
    /\ \E u \in DOMAIN users : users[u].balance = 0

\* the sum of the amounts of the transactions recorded for user u
RECURSIVE debited(_, _)
debited(rows, u) ==
  IF rows = <<>>
  THEN 0
  ELSE (IF Head(rows).user_id = u THEN Head(rows).amount ELSE 0) + debited(Tail(rows), u)

\* the transactions recorded for user u, oldest first
TransactionsOf(u) == SelectSeq(transactions, LAMBDA row : row.user_id = u)

\* C36: a transfer answered 200 lowers the sender's balance by exactly its
\* amount, leaves every other balance alone and records one transaction whose
\* balance_after is the new balance; a transfer answered otherwise changes no
\* balance and records nothing; hence, whatever the order in which the two
\* handlers serve transfers, every balance is the opening balance minus the
\* sum of the amounts recorded for the user and, once there is a transaction,
\* the balance_after of the latest one.
C36_AtomicAdditiveTransfers ==
  /\ [](\A u \in DOMAIN users :
          /\ users[u].balance = InitialBalance - debited(transactions, u)
          /\ TransactionsOf(u) # <<>>
             => users[u].balance
                  = TransactionsOf(u)[Len(TransactionsOf(u))].balance_after)
  /\ [][\A p \in Procs :
          TransferStep(p)
          => IF res'[p].status = 200
             THEN LET u == Sender(req'[p])
                      row == transactions'[Len(transactions')]
                  IN /\ u # NoId
                     /\ users'[u].balance = users[u].balance - req'[p].amount.value
                     /\ \A o \in DOMAIN users \ {u} : users'[o] = users[o]
                     /\ transactions' = Append(transactions, row)
                     /\ row.user_id = u
                     /\ row.amount = req'[p].amount.value
                     /\ row.balance_after = users'[u].balance
                     /\ res'[p].newBalance = users'[u].balance
             ELSE users' = users /\ transactions' = transactions]_vars

\* C36 witness: two transfers were in service at once, each handler holds its
\* 200 response, and the balance has fallen by both amounts
C36_Witness ==
  /\ \A p \in Procs :
       pc[p] = "done" /\ req[p].kind = "transfer" /\ res[p].status = 200
  /\ res["p1"].newBalance # res["p2"].newBalance
  /\ Len(transactions) = 2
  /\ \E u \in DOMAIN users : users[u].balance = 0

====
